---- MODULE Spec2Model ----
(***************************************************************************)
(* A model of the interactive and data-carrying parts of the portfolio     *)
(* site: the clipboard-copy control of the Hero section, the tag renderer, *)
(* and the static tools / projects / skills tables.                        *)
(*                                                                         *)
(* Text that is transformed character by character (tag labels, slugs) is  *)
(* a sequence of one-character strings; text that is only stored and       *)
(* compared (table fields, the clipboard payload) is a TLA+ string.        *)
(***************************************************************************)
EXTENDS Integers, Sequences, FiniteSets, TLC

VARIABLES
    show,          \* CopyToClipboard: useState(false), the acknowledgment flag
    timers,        \* pending setTimeout callbacks, oldest first: ms left to run
    inflight,      \* clipboard writes requested and not yet settled (payloads)
    clipboard,     \* contents of the system clipboard
    clipboardApi,  \* whether navigator.clipboard exists in this browsing context
    clicks,        \* history: number of activations of the icon so far
    rejected,      \* history: some clipboard write has been rejected
    tagText,       \* Tag: the text prop of the latest rendering
    tagRendered,   \* Tag: the component has been rendered at least once
    tagSlug,       \* Tag: kebabCase(text) of the latest rendering
    tagHref,       \* Tag: href of the rendered link
    tagLabel,      \* Tag: the displayed children of the link
    saved,         \* history: some earlier rendering of Tag, <<text, href>>
    tools,         \* the tools table as loaded
    projects,      \* the projects table as loaded
    skillsTable,   \* the skills table as loaded
    tiles,         \* Skills: the tiles rendered from the skills table
    highlight,     \* Skills: per tile, the highlight set on its element
    lastEvent,     \* history: the latest pointer event delivered to a tile
    linkProps,     \* CustomLink: the props of the rendering
    linkOut        \* CustomLink: what the rendering returned

vars == <<show, timers, inflight, clipboard, clipboardApi, clicks, rejected,
          tagText, tagRendered, tagSlug, tagHref, tagLabel, saved,
          tools, projects, skillsTable,
          tiles, highlight, lastEvent, linkProps, linkOut>>

clipVars  == <<show, timers, inflight, clipboard, clipboardApi, clicks, rejected>>
tagVars   == <<tagText, tagRendered, tagSlug, tagHref, tagLabel, saved>>
tableVars == <<tools, projects, skillsTable>>
hoverVars == <<tiles, highlight, lastEvent>>
linkVars  == <<linkProps, linkOut>>

----------------------------------------------------------------------------
(* Bounds of the model *)

MaxClicks == 3        \* activations explored in one behaviour
TicksPerDelay == 2    \* clock steps that make up the acknowledgment delay
MaxLen == 3           \* longest label explored for the slug conversion
MaxCoord == 1         \* largest box offset, and the box size, in pixels
MaxHrefLen == 2       \* longest href explored for CustomLink

----------------------------------------------------------------------------
(* Static data tables *)

\* Tools with an entry copied from its neighbour and its id left as it was
ToolsDuplicateId == <<
  [id |-> "vscode", category |-> <<"mac">>,
   link |-> "https://code.visualstudio.com/", labels |-> <<"Editor">>,
   name |-> "Visual Studio Code",
   description |-> "A lightweight code editor with plenty of plugins."],
  [id |-> "discord", category |-> <<"mac", "ios", "web">>,
   link |-> "https://discord.com", labels |-> <<"Voice Chat">>,
   name |-> "Discord",
   description |-> "A voice chat app."],
  [id |-> "appcleaner", category |-> <<"mac">>,
   link |-> "https://freemacsoft.net/appcleaner/", labels |-> <<"Utility">>,
   name |-> "AppCleaner",
   description |-> "Uninstalls all the files associated with an app."],
  [id |-> "postman", category |-> <<"mac">>,
   link |-> "https://www.getpostman.com/", labels |-> <<"API Testing">>,
   name |-> "Postman",
   description |-> "A tool for testing APIs."],
  [id |-> "stackoverflow", category |-> <<"web">>,
   link |-> "https://stackoverflow.com/", labels |-> <<"Questions">>,
   name |-> "Stack Overflow",
   description |-> "C'mon, we all have questions."],
  [id |-> "notion", category |-> <<"web", "linux", "mac">>,
   link |-> "https://www.notion.so", labels |-> <<"Organiser">>,
   name |-> "Notion",
   description |-> "workspace for everything"],
  [id |-> "notion", category |-> <<"web">>,
   link |-> "https://www.trello.com", labels |-> <<"Project Board">>,
   name |-> "Trello",
   description |-> "Manage projects with team"] >>

\* Tools with an entry added without its link
ToolsMissingLink == <<
  [id |-> "vscode", category |-> <<"mac">>,
   link |-> "https://code.visualstudio.com/", labels |-> <<"Editor">>,
   name |-> "Visual Studio Code",
   description |-> "A lightweight code editor with plenty of plugins."],
  [id |-> "discord", category |-> <<"mac", "ios", "web">>,
   link |-> "https://discord.com", labels |-> <<"Voice Chat">>,
   name |-> "Discord",
   description |-> "A voice chat app."],
  [id |-> "appcleaner", category |-> <<"mac">>,
   link |-> "https://freemacsoft.net/appcleaner/", labels |-> <<"Utility">>,
   name |-> "AppCleaner",
   description |-> "Uninstalls all the files associated with an app."],
  [id |-> "postman", category |-> <<"mac">>,
   link |-> "https://www.getpostman.com/", labels |-> <<"API Testing">>,
   name |-> "Postman",
   description |-> "A tool for testing APIs."],
  [id |-> "stackoverflow", category |-> <<"web">>,
   link |-> "https://stackoverflow.com/", labels |-> <<"Questions">>,
   name |-> "Stack Overflow",
   description |-> "C'mon, we all have questions."],
  [id |-> "notion", category |-> <<"web", "linux", "mac">>,
   link |-> "https://www.notion.so", labels |-> <<"Organiser">>,
   name |-> "Notion",
   description |-> "workspace for everything"],
  [id |-> "trello", category |-> <<"web">>,
   link |-> "", labels |-> <<"Project Board">>,
   name |-> "Trello",
   description |-> "Manage projects with team"] >>

Tools == <<
  [id |-> "vscode", category |-> <<"mac">>,
   link |-> "https://code.visualstudio.com/", labels |-> <<"Editor">>,
   name |-> "Visual Studio Code",
   description |-> "A lightweight code editor with plenty of plugins."],
  [id |-> "discord", category |-> <<"mac", "ios", "web">>,
   link |-> "https://discord.com", labels |-> <<"Voice Chat">>,
   name |-> "Discord",
   description |-> "A voice chat app."],
  [id |-> "appcleaner", category |-> <<"mac">>,
   link |-> "https://freemacsoft.net/appcleaner/", labels |-> <<"Utility">>,
   name |-> "AppCleaner",
   description |-> "Uninstalls all the files associated with an app."],
  [id |-> "postman", category |-> <<"mac">>,
   link |-> "https://www.getpostman.com/", labels |-> <<"API Testing">>,
   name |-> "Postman",
   description |-> "A tool for testing APIs."],
  [id |-> "stackoverflow", category |-> <<"web">>,
   link |-> "https://stackoverflow.com/", labels |-> <<"Questions">>,
   name |-> "Stack Overflow",
   description |-> "C'mon, we all have questions."],
  [id |-> "notion", category |-> <<"web", "linux", "mac">>,
   link |-> "https://www.notion.so", labels |-> <<"Organiser">>,
   name |-> "Notion",
   description |-> "workspace for everything"],
  [id |-> "trello", category |-> <<"web">>,
   link |-> "https://www.trello.com", labels |-> <<"Project Board">>,
   name |-> "Trello",
   description |-> "Manage projects with team"] >>

projectsData == <<
  [title |-> "lazzzy-space",
   description |-> "A web app that provides teams to collaborate academically. It is a platform for students to share their ideas and projects with each other.",
   imgSrc |-> "/static/images/projectCards/wavy-website.png",
   href |-> "https://github.com/Akshay3960/lazzzy-space",
   tools |-> <<"React", "Node", "MongoDB", "Express", "Redux", "JWT">>],
  [title |-> "NaWaB bot",
   description |-> "This bot is a content curator for the topics related to the networks. Made with python and twitter API, it is the best solution to be updated in the latest technologies, developements and discussion of networks on twitter.",
   imgSrc |-> "/static/images/projectCards/twitter-network.png",
   href |-> "https://github.com/Team-SYNACKd/NaWaB",
   tools |-> <<"Python", "Twitter API", "Telegram API">>],
  [title |-> "CMS",
   description |-> "Club Management System (CMS) is django-based web-app which lays framework for the amfoss website, the amfoss webapp, and the amfoss app.",
   imgSrc |-> "/static/images/projectCards/cms.png",
   href |-> "https://gitlab.com/amfoss/amfoss/cms",
   tools |-> <<"Django", "Python", "GraphQL+JWT", "SQLite3">>],
  [title |-> "passman",
   description |-> "passman is a password manager for commandline written in Javascript",
   imgSrc |-> "/static/images/projectCards/passman.png",
   href |-> "https://github.com/ananthanandanan/passman",
   tools |-> <<"javascript">>],
  [title |-> "Umai",
   description |-> "Umai is a hotel management system build using java with postgresql as the database system.",
   imgSrc |-> "/static/images/projectCards/hotel-db.png",
   href |-> "https://github.com/ananthanandanan/Hotel-DB",
   tools |-> <<"Java", "JavaFX", "Postgres">>],
  [title |-> "Nav-FT",
   description |-> "NAV-FT contains some of the features that we can use to speed up the process of vehicle fitness testing.",
   imgSrc |-> "/static/images/projectCards/nav-ft.png",
   href |-> "https://github.com/Fireboltz/NAV-FT",
   tools |-> <<"Flutter", "Firebase", "Python">>] >>

\* The icon components imported by Skills.js; a logo is a reference to one.
ImportedIcons ==
  {"SiReact", "SiTypescript", "SiNextdotjs", "SiNodedotjs", "SiPostgresql",
   "SiGit", "SiDjango", "SiGraphql", "SiPython", "SiDocker", "SiLinux",
   "SiMongodb", "SiFastapi", "SiCelery", "SiRabbitmq", "SiLangchain",
   "SiMinio", "GiTortoise"}

skills == <<
  [name |-> "Python",       logo |-> "SiPython"],
  [name |-> "Django",       logo |-> "SiDjango"],
  [name |-> "TypeScript",   logo |-> "SiTypescript"],
  [name |-> "Node.js",      logo |-> "SiNodedotjs"],
  [name |-> "Git",          logo |-> "SiGit"],
  [name |-> "Docker",       logo |-> "SiDocker"],
  [name |-> "Linux",        logo |-> "SiLinux"],
  [name |-> "Nextjs",       logo |-> "SiNextdotjs"],
  [name |-> "PostgreSQL",   logo |-> "SiPostgresql"],
  [name |-> "MongoDB",      logo |-> "SiMongodb"],
  [name |-> "FastAPI",      logo |-> "SiFastapi"],
  [name |-> "Celery",       logo |-> "SiCelery"],
  [name |-> "RabbitMQ",     logo |-> "SiRabbitmq"],
  [name |-> "MinIO",        logo |-> "SiMinio"],
  [name |-> "LangChain",    logo |-> "SiLangchain"],
  [name |-> "Tortoise ORM", logo |-> "GiTortoise"] >>

----------------------------------------------------------------------------
(* Text helpers: JavaScript string operations on sequences of characters *)

UpperCase == <<"A","B","C","D","E","F","G","H","I","J","K","L","M",
               "N","O","P","Q","R","S","T","U","V","W","X","Y","Z">>
LowerCase == <<"a","b","c","d","e","f","g","h","i","j","k","l","m",
               "n","o","p","q","r","s","t","u","v","w","x","y","z">>

\* String.prototype.toLowerCase on one character
toLowerChar(c) ==
  IF \E i \in 1..Len(UpperCase) : UpperCase[i] = c
    THEN LowerCase[CHOOSE i \in 1..Len(UpperCase) : UpperCase[i] = c]
    ELSE c

toLowerCase(str) == [i \in 1..Len(str) |-> toLowerChar(str[i])]

\* String.prototype.split(sep) for a one-character separator
RECURSIVE split(_, _)
split(str, sep) ==
  IF \A i \in 1..Len(str) : str[i] # sep
    THEN <<str>>
    ELSE LET i == CHOOSE k \in 1..Len(str) :
                    /\ str[k] = sep
                    /\ \A j \in 1..(k - 1) : str[j] # sep
         IN  <<SubSeq(str, 1, i - 1)>> \o split(SubSeq(str, i + 1, Len(str)), sep)

\* Array.prototype.join(sep)
RECURSIVE join(_, _)
join(parts, sep) ==
  IF Len(parts) = 0 THEN <<>>
  ELSE IF Len(parts) = 1 THEN parts[1]
  ELSE parts[1] \o <<sep>> \o join(Tail(parts), sep)

----------------------------------------------------------------------------
(* The tag renderer *)

\* @/lib/utils/kebabCase: lowercase, every space becomes a hyphen
kebabCase(str) ==
  LET lower == toLowerCase(str)
  IN  [i \in 1..Len(lower) |-> IF lower[i] = " " THEN "-" ELSE lower[i]]

TagsPath == <<"/", "t", "a", "g", "s", "/">>

\* the raw text interpolated into the href, kebabCase forgotten
TagSlugRaw(text) == text

\* a slugger that numbers the repetitions of a slug it has already produced
TagSlugCounted(text) ==
  IF tagRendered /\ tagText = text
    THEN kebabCase(text) \o <<"-", "1">>
    ELSE kebabCase(text)

\* the displayed label reused as the slug: hyphenated, case kept
TagSlugLabel(text) == join(split(text, " "), "-")

\* the slug interpolated into the href: ${kebabCase(text)}
TagSlug(text) == kebabCase(text)

\* href={`/tags/${kebabCase(text)}`}
TagHref(text) == TagsPath \o TagSlug(text)

\* the label with the empty pieces dropped before joining: a run of spaces
\* becomes one hyphen
TagLabelCollapsed(text) ==
  join(SelectSeq(split(text, " "), LAMBDA piece : Len(piece) > 0), "-")

\* {text.split(' ').join('-')}
TagLabel(text) == join(split(text, " "), "-")

\* One rendering of <Tag text={text} />.  The history variable `saved`
\* either keeps the rendering it remembers or takes the one being replaced.
Tag(text) ==
  /\ tagText' = text
  /\ tagRendered' = TRUE
  /\ tagSlug' = TagSlug(text)
  /\ tagHref' = TagHref(text)
  /\ tagLabel' = TagLabel(text)
  /\ \/ saved' = saved
     \/ tagRendered /\ saved' = <<tagText, tagHref>>
  /\ UNCHANGED <<clipVars, tableVars, hoverVars, linkVars>>

\* Labels over the bounded alphabet, up to MaxLen characters
Alphabet == {"A", "B", "a", "b", " ", "-"}
Labels == UNION {[1..n -> Alphabet] : n \in 0..MaxLen}

\* Tags of the posts' front matter that the pages render
SiteTags ==
  { <<"d","e","v","O","p","s">>,
    <<"a","z","u","r","e","-","c","l","i">>,
    <<"M","L","O","p","s">> }

----------------------------------------------------------------------------
(* The clipboard-copy control of the Hero section *)

\* <CopyToClipboard text={{ contact: ..., type: 'Email' }} ... />
text == [contact |-> "ananthanandanan@gmail.com", type |-> "Email"]

\* setTimeout(..., 3000)
Delay == 3000

TickMs == Delay \div TicksPerDelay

\* what the clipboard may hold before the page is used
InitialClipboards == {"earlier clip"}

\* the other field of the text prop handed to writeText
ClipboardPayloadType == text.type

\* the argument of navigator.clipboard.writeText
ClipboardPayload == text.contact

\* handleClick awaiting the write before it acknowledges
handleClickAwaited ==
  /\ clicks < MaxClicks
  /\ clicks' = clicks + 1
  /\ IF clipboardApi
       THEN /\ clipboard' = ClipboardPayload
            /\ show' = ~show
            /\ timers' = Append(timers, Delay)
       ELSE UNCHANGED <<clipboard, show, timers>>
  /\ UNCHANGED <<inflight, clipboardApi, rejected, tagVars, tableVars, hoverVars, linkVars>>

\* handleClick showing the acknowledgment instead of toggling it
handleClickSetTrue ==
  /\ clicks < MaxClicks
  /\ clicks' = clicks + 1
  /\ IF clipboardApi
       THEN /\ inflight' = Append(inflight, ClipboardPayload)
            /\ show' = TRUE
            /\ timers' = Append(timers, Delay)
       ELSE UNCHANGED <<inflight, show, timers>>
  /\ UNCHANGED <<clipboard, clipboardApi, rejected, tagVars, tableVars, hoverVars, linkVars>>

\* handleClick with the write as its last statement: the flag is changed
\* and the timer scheduled before the call can throw
handleClickWriteLast ==
  /\ clicks < MaxClicks
  /\ clicks' = clicks + 1
  /\ show' = ~show
  /\ timers' = Append(timers, Delay)
  /\ IF clipboardApi
       THEN inflight' = Append(inflight, ClipboardPayload)
       ELSE UNCHANGED inflight
  /\ UNCHANGED <<clipboard, clipboardApi, rejected, tagVars, tableVars, hoverVars, linkVars>>

\* handleClick.  navigator.clipboard is undefined outside a secure context:
\* the call then throws before setShow and setTimeout are reached.  The write
\* itself is a promise that the handler does not await.
handleClick ==
  /\ clicks < MaxClicks
  /\ clicks' = clicks + 1
  /\ IF clipboardApi
       THEN /\ inflight' = Append(inflight, ClipboardPayload)
            /\ show' = ~show
            /\ timers' = Append(timers, Delay)
       ELSE UNCHANGED <<inflight, show, timers>>
  /\ UNCHANGED <<clipboard, clipboardApi, rejected, tagVars, tableVars, hoverVars, linkVars>>

\* the timer callback without its setShow(false)
TimerFireNoReset ==
  /\ Len(timers) > 0
  /\ timers[1] = 0
  /\ show' = show
  /\ timers' = Tail(timers)
  /\ UNCHANGED <<inflight, clipboard, clipboardApi, clicks, rejected,
                 tagVars, tableVars, hoverVars, linkVars>>

\* the timer callback toggling the flag as handleClick does
TimerFireToggle ==
  /\ Len(timers) > 0
  /\ timers[1] = 0
  /\ show' = ~show
  /\ timers' = Tail(timers)
  /\ UNCHANGED <<inflight, clipboard, clipboardApi, clicks, rejected,
                 tagVars, tableVars, hoverVars, linkVars>>

\* the callback passed to setTimeout, run once its delay has elapsed;
\* equal delays run in the order they were scheduled
TimerFire ==
  /\ Len(timers) > 0
  /\ timers[1] = 0
  /\ show' = FALSE
  /\ timers' = Tail(timers)
  /\ UNCHANGED <<inflight, clipboard, clipboardApi, clicks, rejected,
                 tagVars, tableVars, hoverVars, linkVars>>

\* <Notification show={show} ... />: the transient acknowledgment is on
\* screen exactly while the flag is true; it reverts only through the timer
NotificationShown == show

\* time passes: every pending timer gets closer to its deadline
Tick ==
  /\ \E i \in 1..Len(timers) : timers[i] > 0
  /\ timers' = [i \in 1..Len(timers) |->
                  IF timers[i] > TickMs THEN timers[i] - TickMs ELSE 0]
  /\ UNCHANGED <<show, inflight, clipboard, clipboardApi, clicks, rejected,
                 tagVars, tableVars, hoverVars, linkVars>>

RemoveAt(seq, i) == SubSeq(seq, 1, i - 1) \o SubSeq(seq, i + 1, Len(seq))

\* the acknowledgment shown from the fulfilment of the write
WriteResolveShowsAck ==
  /\ \E i \in 1..Len(inflight) :
       /\ clipboard' = inflight[i]
       /\ inflight' = RemoveAt(inflight, i)
  /\ show' = TRUE
  /\ UNCHANGED <<timers, clipboardApi, clicks, rejected,
                 tagVars, tableVars, hoverVars, linkVars>>

\* the platform fulfils a pending writeText promise
WriteResolve ==
  /\ \E i \in 1..Len(inflight) :
       /\ clipboard' = inflight[i]
       /\ inflight' = RemoveAt(inflight, i)
  /\ UNCHANGED <<show, timers, clipboardApi, clicks, rejected,
                 tagVars, tableVars, hoverVars, linkVars>>

\* a rejection handler that withdraws the acknowledgment
WriteRejectHidesAck ==
  /\ \E i \in 1..Len(inflight) :
       inflight' = RemoveAt(inflight, i)
  /\ rejected' = TRUE
  /\ show' = FALSE
  /\ UNCHANGED <<timers, clipboard, clipboardApi, clicks,
                 tagVars, tableVars, hoverVars, linkVars>>

\* the platform rejects a pending writeText promise; nothing handles it
WriteReject ==
  /\ \E i \in 1..Len(inflight) :
       inflight' = RemoveAt(inflight, i)
  /\ rejected' = TRUE
  /\ UNCHANGED <<show, timers, clipboard, clipboardApi, clicks,
                 tagVars, tableVars, hoverVars, linkVars>>

----------------------------------------------------------------------------
(* The hover effect of the skill tiles *)

\* skills.map(...): one tile per entry of the table, in table order
Tiles == 1..Len(skills)

\* Skills rendering after sorting the table in place: Array.prototype.reverse
\* and sort change the array they are called on
SkillsReversed ==
  /\ skillsTable' = [i \in 1..Len(skillsTable) |->
                       skillsTable[Len(skillsTable) + 1 - i]]
  /\ tiles' = [i \in 1..Len(skillsTable) |->
                 [key |-> skillsTable'[i].name, title |-> skillsTable'[i].name,
                  logo |-> skillsTable'[i].logo, label |-> skillsTable'[i].name]]
  /\ UNCHANGED <<clipVars, tagVars, tools, projects, highlight, lastEvent, linkVars>>

\* the Skills component: one motion.div per skill, keyed and titled by the
\* skill's name, holding its logo and its name
Skills ==
  /\ tiles' = [i \in 1..Len(skillsTable) |->
                 [key |-> skillsTable[i].name, title |-> skillsTable[i].name,
                  logo |-> skillsTable[i].logo, label |-> skillsTable[i].name]]
  /\ UNCHANGED <<clipVars, tagVars, tableVars, highlight, lastEvent, linkVars>>

\* the tiles the pointer visits: those of the first two skills
HoverTiles == {1, 2}

\* an element without the highlight
NoHighlight == [on |-> FALSE]

NoEvent == [type |-> "none"]

\* e.target.getBoundingClientRect(): where layout and scrolling put the tile
Rects ==
  { [left |-> l, top |-> t, width |-> MaxCoord, height |-> MaxCoord] :
      l \in 0..MaxCoord, t \in 0..MaxCoord }

\* mousemove is delivered to a tile while the cursor is within its box; the
\* children of a tile are pointer-events-none, so the target is the tile
MoveEvents ==
  { [type |-> "mousemove", target |-> t, clientX |-> x, clientY |-> y, rect |-> r] :
      t \in HoverTiles, x \in 0..(2 * MaxCoord), y \in 0..(2 * MaxCoord), r \in Rects }

InsideBox(e) ==
  /\ e.rect.left <= e.clientX /\ e.clientX <= e.rect.left + e.rect.width
  /\ e.rect.top <= e.clientY /\ e.clientY <= e.rect.top + e.rect.height

LeaveEvents == { [type |-> "mouseleave", target |-> t] : t \in HoverTiles }

\* lib/windowAnimation showHoverAnimation: the highlight is put at the cursor
\* position relative to the bounding box of the element
showHoverAnimation(e) ==
  [highlight EXCEPT ![e.target] =
     [on |-> TRUE, x |-> e.clientX - e.rect.left, y |-> e.clientY - e.rect.top]]

\* lib/windowAnimation removeHoverAnimation: the highlight is reset
removeHoverAnimation(e) ==
  [highlight EXCEPT ![e.target] = NoHighlight]

\* a handler that places the highlight only on a tile that has none
onMouseMoveOnce(e) ==
  /\ highlight' = IF highlight[e.target].on THEN highlight ELSE showHoverAnimation(e)
  /\ lastEvent' = e
  /\ UNCHANGED <<clipVars, tagVars, tableVars, tiles, linkVars>>

\* a handler that takes the cursor position in the viewport, not in the box
onMouseMoveViewport(e) ==
  /\ highlight' = [highlight EXCEPT ![e.target] =
                     [on |-> TRUE, x |-> e.clientX, y |-> e.clientY]]
  /\ lastEvent' = e
  /\ UNCHANGED <<clipVars, tagVars, tableVars, tiles, linkVars>>

\* onMouseMove={(e) => showHoverAnimation(e)}
onMouseMove(e) ==
  /\ highlight' = showHoverAnimation(e)
  /\ lastEvent' = e
  /\ UNCHANGED <<clipVars, tagVars, tableVars, tiles, linkVars>>

\* a tile whose onMouseLeave does not call removeHoverAnimation
onMouseLeaveUnwired(e) ==
  /\ highlight' = highlight
  /\ lastEvent' = e
  /\ UNCHANGED <<clipVars, tagVars, tableVars, tiles, linkVars>>

\* onMouseLeave={(e) => removeHoverAnimation(e)}
onMouseLeave(e) ==
  /\ highlight' = removeHoverAnimation(e)
  /\ lastEvent' = e
  /\ UNCHANGED <<clipVars, tagVars, tableVars, tiles, linkVars>>

\* pointer events reach the tiles that have been rendered
PointerMove ==
  \E e \in MoveEvents :
    /\ e.target <= Len(tiles)
    /\ InsideBox(e)
    /\ onMouseMove(e)

PointerLeave ==
  \E e \in LeaveEvents :
    /\ e.target <= Len(tiles)
    /\ onMouseLeave(e)

\* the pointer events of the page specification: the cursor at the far
\* corner of the first tile, and the pointer leaving that tile
SiteMoveEvent ==
  [type |-> "mousemove", target |-> 1, clientX |-> MaxCoord, clientY |-> MaxCoord,
   rect |-> [left |-> 0, top |-> 0, width |-> MaxCoord, height |-> MaxCoord]]

SiteLeaveEvent == [type |-> "mouseleave", target |-> 1]

SitePointerMove ==
  /\ SiteMoveEvent.target <= Len(tiles)
  /\ onMouseMove(SiteMoveEvent)

SitePointerLeave ==
  /\ SiteLeaveEvent.target <= Len(tiles)
  /\ onMouseLeave(SiteLeaveEvent)

----------------------------------------------------------------------------
(* CustomLink *)

\* JavaScript values of the props; a string is its sequence of characters
Undefined == [t |-> "undefined"]
JsString(chars) == [t |-> "string", v |-> chars]
JsNumber(n) == [t |-> "number", v |-> n]
JsBoolean(b) == [t |-> "boolean", v |-> b]

\* ToBoolean: undefined, false, 0 and the empty string are falsy
Truthy(val) ==
  CASE val.t = "undefined" -> FALSE
    [] val.t = "boolean"   -> val.v
    [] val.t = "number"    -> val.v # 0
    [] val.t = "string"    -> Len(val.v) > 0

\* a && b: the left operand when it is falsy, else the right operand
JsAnd(a, b) == IF Truthy(a) THEN b ELSE a

\* String.prototype.startsWith for a one-character search string
startsWith(str, c) == JsBoolean(Len(str.v) >= 1 /\ str.v[1] = c)

\* { ...base, ...rest }: the keys of rest replace those of base
Spread(base, rest) ==
  [k \in (DOMAIN base) \cup (DOMAIN rest) |->
     IF k \in DOMAIN rest THEN rest[k] ELSE base[k]]

NoProps == [k \in {} |-> Undefined]

Blank == <<"_","b","l","a","n","k">>
NoopenerNoreferrer ==
  <<"n","o","o","p","e","n","e","r"," ","n","o","r","e","f","e","r","r","e","r">>

Unrendered == [element |-> "unrendered"]

\* CustomLink without its same-page anchor branch
CustomLinkNoAnchor(props) ==
  LET href == props.href
      isInternalLink == JsAnd(href, startsWith(href, "/"))
  IN  IF ~Truthy(props.children)
        THEN [element |-> "null"]
      ELSE IF Truthy(isInternalLink)
        THEN [element |-> "Link", href |-> href, attrs |-> Spread(NoProps, props.rest)]
      ELSE [element |-> "a",
            attrs |-> Spread([target |-> JsString(Blank),
                              rel |-> JsString(NoopenerNoreferrer),
                              href |-> href], props.rest)]

\* CustomLink({ href, onClick, children, ...rest }): what it returns.  The
\* internal case is a framework Link (passHref) around an <a> carrying rest.
CustomLink(props) ==
  LET href == props.href
      isInternalLink == JsAnd(href, startsWith(href, "/"))
      isAnchorLink == JsAnd(href, startsWith(href, "#"))
  IN  IF ~Truthy(props.children)
        THEN [element |-> "null"]
      ELSE IF Truthy(isInternalLink)
        THEN [element |-> "Link", href |-> href, attrs |-> Spread(NoProps, props.rest)]
      ELSE IF Truthy(isAnchorLink)
        THEN [element |-> "a", attrs |-> Spread([href |-> href], props.rest)]
      ELSE [element |-> "a",
            attrs |-> Spread([target |-> JsString(Blank),
                              rel |-> JsString(NoopenerNoreferrer),
                              href |-> href], props.rest)]

\* one rendering of <CustomLink {...linkProps} />
RenderLink ==
  /\ linkOut' = CustomLink(linkProps)
  /\ UNCHANGED <<linkProps, clipVars, tagVars, tableVars, hoverVars>>

\* hrefs over a bounded alphabet, and the absent href
HrefAlphabet == {"/", "#", "m", ":"}
Hrefs ==
  {Undefined} \cup
  {JsString(h) : h \in UNION {[1..n -> HrefAlphabet] : n \in 0..MaxHrefLen}}

\* children: absent, the number 0, the empty string, a text
ChildrenValues ==
  {Undefined, JsNumber(0), JsString(<<>>), JsString(<<"B","l","o","g">>)}

\* the remaining props a caller may pass
RestKeys == {"target", "rel", "className"}
RestValue(k) ==
  CASE k = "target"    -> JsString(<<"_","s","e","l","f">>)
    [] k = "rel"       -> JsString(<<"n","o","f","o","l","l","o","w">>)
    [] k = "className" -> JsString(<<"g","r","o","u","p">>)
Rests == {[k \in K |-> RestValue(k)] : K \in SUBSET RestKeys}

----------------------------------------------------------------------------
(* Specifications *)

InitClip ==
  /\ show = FALSE
  /\ timers = <<>>
  /\ inflight = <<>>
  /\ clipboard \in InitialClipboards
  /\ clipboardApi \in BOOLEAN
  /\ clicks = 0
  /\ rejected = FALSE

InitTables ==
  /\ tools = Tools
  /\ projects = projectsData
  /\ skillsTable = skills

\* no tile carries a highlight before the first pointer event
InitHover ==
  /\ tiles = <<>>
  /\ highlight = [t \in Tiles |-> NoHighlight]
  /\ lastEvent = NoEvent

\* no CustomLink rendered yet
InitLink ==
  /\ linkProps = [href |-> Undefined, children |-> Undefined, rest |-> NoProps]
  /\ linkOut = Unrendered

\* The page: nothing rendered by Tag yet
Init ==
  /\ InitClip
  /\ InitTables
  /\ InitHover
  /\ InitLink
  /\ tagText = <<>>
  /\ tagRendered = FALSE
  /\ tagSlug = <<>>
  /\ tagHref = <<>>
  /\ tagLabel = <<>>
  /\ saved = <<>>

RenderSiteTag == \E t \in SiteTags : Tag(t)

Next ==
  \/ handleClick
  \/ TimerFire
  \/ Tick
  \/ WriteResolve
  \/ WriteReject
  \/ RenderSiteTag

Spec == Init /\ [][Next]_vars

\* The slug conversion as a pure function: the label is drawn in the initial
\* state and the renderer is applied to it.
InitSlug ==
  /\ InitClip
  /\ InitTables
  /\ InitHover
  /\ InitLink
  /\ tagText \in Labels
  /\ tagRendered = FALSE
  /\ tagSlug = <<>>
  /\ tagHref = <<>>
  /\ tagLabel = <<>>
  /\ saved = <<>>

RenderLabel == Tag(tagText)

NextSlug == RenderLabel

SpecSlug == InitSlug /\ [][NextSlug]_vars

\* The hover effect on its own: pointer events over the tiles
NextHover ==
  \/ Skills
  \/ PointerMove
  \/ PointerLeave

SpecHover == Init /\ [][NextHover]_vars

\* CustomLink as a pure function: the props are drawn in the initial state
InitLinkProps ==
  /\ InitClip
  /\ InitTables
  /\ InitHover
  /\ tagText = <<>>
  /\ tagRendered = FALSE
  /\ tagSlug = <<>>
  /\ tagHref = <<>>
  /\ tagLabel = <<>>
  /\ saved = <<>>
  /\ linkProps \in [href : Hrefs, children : ChildrenValues, rest : Rests]
  /\ linkOut = Unrendered

NextLink == RenderLink

SpecLink == InitLinkProps /\ [][NextLink]_vars

\* The whole page: the operations of Spec together with pointer events
NextSite ==
  \/ handleClick
  \/ TimerFire
  \/ Tick
  \/ WriteResolve
  \/ WriteReject
  \/ RenderSiteTag
  \/ Skills
  \/ SitePointerMove
  \/ SitePointerLeave

SpecSite == Init /\ [][NextSite]_vars

----------------------------------------------------------------------------
(* Properties of the clipboard-copy control *)

\* C1: after every activation whose handler has run to its end (it has
\* scheduled its timer), the acknowledgment flag is true, whatever it was
\* before and however many timers are pending.
C1_ShownAfterActivation ==
  [][Len(timers') > Len(timers) => show' = TRUE]_vars

\* C2: when every scheduled timer has fired (each fires only once its 3000 ms
\* have elapsed), the flag is false; it stays so until an activation
\* schedules a new timer.
C2_HiddenAfterTimeout == Len(timers) = 0 => show = FALSE

C2_Witness ==
  /\ clipboardApi
  /\ clicks >= 2
  /\ Len(timers) = 0
  /\ show = FALSE

\* C3: the flag is never true before the first activation, and only an
\* activation turns it from false to true.
C3_NoAckWithoutActivation ==
  /\ [](show => clicks > 0)
  /\ [][(~show /\ show') => clicks' = clicks + 1]_vars

C3_Witness == NotificationShown /\ clicks = 1 /\ Len(timers) = 1

\* C4: every activation requests a write of the fixed contact string, every
\* write in flight carries it, and once all writes of at least one
\* activation have succeeded the clipboard holds exactly that string.
C4_FixedPayload ==
  /\ [](\A i \in 1..Len(inflight) : inflight[i] = "ananthanandanan@gmail.com")
  /\ []((clipboardApi /\ clicks > 0 /\ Len(inflight) = 0 /\ ~rejected)
          => clipboard = "ananthanandanan@gmail.com")
  /\ [][(clicks' = clicks + 1 /\ clipboardApi)
          => inflight' = Append(inflight, "ananthanandanan@gmail.com")]_vars

C4_Witness ==
  /\ clipboardApi
  /\ clicks >= 2
  /\ Len(inflight) = 0
  /\ ~rejected
  /\ clipboard = "ananthanandanan@gmail.com"

\* C5: the settling of a write, fulfilled or rejected, leaves the flag and
\* the timers alone, and an activation changes them the same way whether or
\* not a write has been rejected before.
C5_RejectionInvisible ==
  [][ /\ Len(inflight') < Len(inflight)
           => (show' = show /\ timers' = timers)
      /\ Len(timers') > Len(timers)
           => (show' = ~show /\ timers' = Append(timers, Delay)) ]_vars

C5_Witness ==
  /\ rejected
  /\ clicks > 0
  /\ Len(inflight) = 0
  /\ Len(timers) = 0
  /\ show = FALSE

\* C6 as stated: when the activation handler returns, its clipboard write
\* has completed, so no write is in flight after an activation.
C6_WriteCompletedOnReturn ==
  [][clicks' = clicks + 1 => Len(inflight') = 0]_vars

\* C6 amended: the write is not awaited.  When the handler returns, the write
\* it requested is in flight and the clipboard is still unchanged; at most
\* one write per activation is in flight.
C6_WriteInFlightOnReturn ==
  /\ [](Len(inflight) <= clicks)
  /\ [][Len(timers') > Len(timers)
          => (Len(inflight') = Len(inflight) + 1 /\ clipboard' = clipboard)]_vars

C6_Witness == Len(inflight) >= 2 /\ show

----------------------------------------------------------------------------
(* Properties of the tag renderer *)

IsUpper(c) == \E k \in 1..Len(UpperCase) : UpperCase[k] = c

\* C7: the slug of a rendered link is a fixed point of the slug conversion:
\* slugifying it again returns it unchanged.
C7_SlugIdempotent == tagRendered => kebabCase(tagSlug) = tagSlug

C7_Witness ==
  /\ tagRendered
  /\ tagSlug # tagText
  /\ \E i \in 1..Len(tagSlug) : tagSlug[i] = "-"

C9_SlugShape ==
  tagRendered =>
    /\ tagHref = <<"/", "t", "a", "g", "s", "/">> \o tagSlug
    /\ Len(tagSlug) = Len(tagText)
    /\ \A i \in 1..Len(tagText) :
         /\ tagSlug[i] # " "
         /\ ~IsUpper(tagSlug[i])
         /\ tagText[i] = " " => tagSlug[i] = "-"
         /\ \A k \in 1..Len(UpperCase) :
              tagText[i] = UpperCase[k] => tagSlug[i] = LowerCase[k]
         /\ (tagText[i] # " " /\ ~IsUpper(tagText[i])) => tagSlug[i] = tagText[i]

C9_Witness ==
  /\ tagRendered
  /\ \E i \in 1..Len(tagText) : tagText[i] = " "
  /\ \E i \in 1..Len(tagText) : IsUpper(tagText[i])

----------------------------------------------------------------------------
(* Properties of the data tables *)

NonEmptyList(l) == Len(l) > 0 /\ \A i \in 1..Len(l) : l[i] # ""

\* C10: every tool, project and skill has its required fields, none empty,
\* and every skill's logo is one of the imported icons.
C10_RequiredFields ==
  /\ \A i \in 1..Len(tools) :
       /\ tools[i].id # ""
       /\ tools[i].link # ""
       /\ tools[i].name # ""
       /\ tools[i].description # ""
       /\ NonEmptyList(tools[i].category)
       /\ NonEmptyList(tools[i].labels)
  /\ \A i \in 1..Len(projects) :
       /\ projects[i].title # ""
       /\ projects[i].description # ""
       /\ projects[i].imgSrc # ""
       /\ projects[i].href # ""
       /\ NonEmptyList(projects[i].tools)
  /\ \A i \in 1..Len(skillsTable) :
       /\ skillsTable[i].name # ""
       /\ skillsTable[i].logo \in ImportedIcons

C10_Witness ==
  /\ Len(tools) = 7
  /\ Len(projects) = 6
  /\ Len(skillsTable) = 16
  /\ tools[7].id = "trello"
  /\ skillsTable[16].logo = "GiTortoise"

----------------------------------------------------------------------------
(* Properties of the page as a whole *)

\* C11: the tools, projects and skills tables hold the entries they were
\* loaded with, and no step of the page (rendering, pointer move or leave,
\* activation, timer, settling of a write) changes any of them.
C11_TablesConstant ==
  /\ [](tools = Tools /\ projects = projectsData /\ skillsTable = skills)
  /\ [][tools' = tools /\ projects' = projects /\ skillsTable' = skillsTable]_vars

C11_Witness ==
  /\ Len(tiles) = Len(skillsTable)
  /\ tagRendered
  /\ lastEvent.type = "mouseleave"
  /\ clicks >= 1
  /\ clipboardApi
  /\ Len(timers) = 0

C16_ActivationToggles ==
  [][Len(timers') > Len(timers) => show' = ~show]_vars

C16_Witness ==
  /\ clicks = 2
  /\ Len(timers) = 2
  /\ show = FALSE

\* C17: while the flag is true it was set by the latest activation, whose
\* timer is the youngest pending one; the claim is that only that timer
\* turns it false, so a timer that hides the acknowledgment is the only
\* one pending.
C17_AckOutlivesEarlierTimers ==
  [][(show /\ ~show' /\ clicks' = clicks) => Len(timers) = 1]_vars

\* C18: an activation in a context without navigator.clipboard throws at
\* the write and leaves the flag, the timers, the writes in flight and the
\* clipboard as they were.
C18_ThrowLeavesState ==
  [][(clicks' = clicks + 1 /\ ~clipboardApi)
       => (show' = show /\ timers' = timers /\ inflight' = inflight
           /\ clipboard' = clipboard)]_vars

C18_Witness ==
  /\ ~clipboardApi
  /\ clicks >= 2
  /\ show = FALSE
  /\ Len(timers) = 0
  /\ Len(inflight) = 0

----------------------------------------------------------------------------
(* Properties of the hover effect *)

\* C12: right after a pointer leave over a tile its highlight is reset, and
\* a tile without highlight gets one only by a pointer move over that tile.
C12_HighlightBetweenMoveAndLeave ==
  /\ [](lastEvent.type = "mouseleave" => ~highlight[lastEvent.target].on)
  /\ [][\A t \in Tiles :
          (~highlight[t].on /\ highlight'[t].on)
            => (lastEvent'.type = "mousemove" /\ lastEvent'.target = t)]_vars

C12_Witness ==
  /\ lastEvent.type = "mouseleave"
  /\ lastEvent.target = 1
  /\ ~highlight[1].on
  /\ highlight[2].on

\* C13: the highlight of the tile of the latest event is what that event
\* alone determines: the cursor position relative to the box for a move,
\* no highlight for a leave; the other tiles are not touched by the event.
C13_HoverStateless ==
  /\ [](lastEvent.type = "mouseleave"
          => highlight[lastEvent.target] = [on |-> FALSE])
  /\ [](lastEvent.type = "mousemove"
          => highlight[lastEvent.target] =
               [on |-> TRUE,
                x |-> lastEvent.clientX - lastEvent.rect.left,
                y |-> lastEvent.clientY - lastEvent.rect.top])
  /\ [][lastEvent' # lastEvent
          => \A t \in Tiles \ {lastEvent'.target} : highlight'[t] = highlight[t]]_vars

C13_Witness ==
  /\ lastEvent.type = "mousemove"
  /\ lastEvent.target = 1
  /\ lastEvent.clientX = lastEvent.rect.left
  /\ highlight[1] = [on |-> TRUE, x |-> 0, y |-> lastEvent.clientY - lastEvent.rect.top]
  /\ highlight[2].on

\* C14: after a pointer move the highlight is at (cursor x - box left,
\* cursor y - box top), which lies within [0, width] x [0, height].
C14_HighlightInsideBox ==
  lastEvent.type = "mousemove" =>
    LET h == highlight[lastEvent.target]
    IN  /\ h.on
        /\ h.x = lastEvent.clientX - lastEvent.rect.left
        /\ h.y = lastEvent.clientY - lastEvent.rect.top
        /\ 0 <= h.x /\ h.x <= lastEvent.rect.width
        /\ 0 <= h.y /\ h.y <= lastEvent.rect.height

C14_Witness ==
  /\ lastEvent.type = "mousemove"
  /\ lastEvent.rect.left > 0
  /\ lastEvent.rect.top > 0
  /\ highlight[lastEvent.target].x = lastEvent.rect.width
  /\ highlight[lastEvent.target].y = 0

----------------------------------------------------------------------------
(* Properties of CustomLink *)

HrefStartsWith(c) ==
  /\ linkProps.href.t = "string"
  /\ Len(linkProps.href.v) >= 1
  /\ linkProps.href.v[1] = c

\* C19: with children to show and no target or rel passed by the caller,
\* the first character of the href decides the rendering: '/' gives the
\* framework Link without target, else '#' gives a plain anchor without
\* target, and every other href, absent and empty included, gives an anchor
\* with target _blank and rel noopener noreferrer.
C19_RenderingByFirstCharacter ==
  ( /\ linkOut # Unrendered
    /\ Truthy(linkProps.children)
    /\ "target" \notin DOMAIN linkProps.rest
    /\ "rel" \notin DOMAIN linkProps.rest )
  =>
    IF HrefStartsWith("/")
      THEN /\ linkOut.element = "Link"
           /\ linkOut.href = linkProps.href
           /\ "target" \notin DOMAIN linkOut.attrs
    ELSE IF HrefStartsWith("#")
      THEN /\ linkOut.element = "a"
           /\ linkOut.attrs.href = linkProps.href
           /\ "target" \notin DOMAIN linkOut.attrs
    ELSE /\ linkOut.element = "a"
         /\ linkOut.attrs.href = linkProps.href
         /\ linkOut.attrs.target = [t |-> "string", v |-> <<"_","b","l","a","n","k">>]
         /\ linkOut.attrs.rel = [t |-> "string", v |->
              <<"n","o","o","p","e","n","e","r"," ","n","o","r","e","f","e","r","r","e","r">>]

C19_Witness ==
  /\ linkOut # Unrendered
  /\ Truthy(linkProps.children)
  /\ DOMAIN linkProps.rest = {"className"}
  /\ HrefStartsWith("#")
  /\ Len(linkProps.href.v) = 2
  /\ linkOut.element = "a"

\* C20: CustomLink returns null exactly when it has no children: for every
\* href, absent children give null and present children give a link element.
C20_NullIffNoChildren ==
  linkOut # Unrendered =>
    (linkOut.element = "null" <=> linkProps.children = Undefined)

\* C21: every rendered anchor whose target is _blank has rel
\* noopener noreferrer, whatever href and remaining props the caller passes.
C21_BlankTargetHasRel ==
  ( /\ linkOut # Unrendered
    /\ linkOut.element # "null"
    /\ "target" \in DOMAIN linkOut.attrs
    /\ linkOut.attrs.target = [t |-> "string", v |-> <<"_","b","l","a","n","k">>] )
  =>
    /\ "rel" \in DOMAIN linkOut.attrs
    /\ linkOut.attrs.rel = [t |-> "string", v |->
         <<"n","o","o","p","e","n","e","r"," ","n","o","r","e","f","e","r","r","e","r">>]

----------------------------------------------------------------------------
(* Further properties of the tag renderer and of the tables *)

\* C22: the displayed label is the text with each space replaced by one
\* hyphen and every other character kept, case included; the slug of the
\* href is that label lowercased.
C22_LabelAndSlug ==
  tagRendered =>
    /\ Len(tagLabel) = Len(tagText)
    /\ \A i \in 1..Len(tagText) :
         tagLabel[i] = IF tagText[i] = " " THEN "-" ELSE tagText[i]
    /\ tagSlug = toLowerCase(tagLabel)
    /\ tagHref = <<"/", "t", "a", "g", "s", "/">> \o toLowerCase(tagLabel)

C22_Witness ==
  /\ tagRendered
  /\ Len(tagText) = 3
  /\ tagText[1] = " "
  /\ tagText[2] = " "
  /\ IsUpper(tagText[3])
  /\ tagLabel[1] = "-"
  /\ tagLabel[2] = "-"

\* C23: no two skills share a name, so no two rendered tiles share a key,
\* and no two tools share an id.
C23_IdentitiesDistinct ==
  /\ \A i, j \in 1..Len(skillsTable) :
       i # j => skillsTable[i].name # skillsTable[j].name
  /\ \A i, j \in 1..Len(tiles) :
       i # j => tiles[i].key # tiles[j].key
  /\ \A i, j \in 1..Len(tools) :
       i # j => tools[i].id # tools[j].id

C23_Witness ==
  /\ Len(tiles) = 16
  /\ Len(tools) = 7
  /\ tiles[16].key = "Tortoise ORM"
  /\ highlight[1].on

====
